---------------------------- MODULE Spec2Model ----------------------------
(***************************************************************************)
(* State-machine model of the gateway service (src/app).                   *)
(*                                                                         *)
(* One process serves HTTP requests on a single event loop.  `async def`   *)
(* handlers run on the loop; the synchronous dependency `get_supabase`     *)
(* (database.py:58) is run by the framework in a worker thread, so several *)
(* invocations of the lru_cache-wrapped factory can overlap.  The backend  *)
(* (auth surface, "users" table) and the downstream ping service are       *)
(* external: their answers are chosen nondeterministically.                *)
(***************************************************************************)
EXTENDS Integers, FiniteSets, Sequences, TLC

\* ------------------------------------------------------------------ bounds
MaxReq == 2          \* requests the process receives in one behaviour
MaxId == 2           \* ids the backend can assign

\* ------------------------------------------------------- program constants
MinPasswordLen == 8  \* users.py:34  Field(..., min_length=8)

Req == 1..MaxReq
Ids == 1..MaxId
Emails == {"a@x", "A@x"}
PwLens == {0, MinPasswordLen - 1, MinPasswordLen}
Kinds == {"root", "text", "ping", "create", "get"}
Texts == {"hello"}

ConfigErrorMsg == "SUPABASE_URL and SUPABASE_ANON_KEY must be set in the environment."
DependencyErrorMsg == "supabase-py is required for database operations."
SignUpFallbackMsg == "An unknown error occurred during sign up"
RootMessage == "Gateway is working"
ValidationErrorMsg == "validation error"
TextErrorMsg == "processing error"
NoRowsMsg == "JSON object requested, multiple (or no) rows returned"
BackendDownMsg == "backend unavailable"
NonJsonBody == "<html>"
Bodies == {"{status: ok}", NonJsonBody}
Statuses == {200, 301, 500}
DownstreamOutcomes ==
    { [reach |-> FALSE, status |-> 0, body |-> ""] }
    \cup { [reach |-> TRUE, status |-> s, body |-> b] : s \in Statuses, b \in Bodies }

\* Python dicts the backend hands back, as (key set, message value).
EmptyDict == [keys |-> {}, message |-> ""]
ErrDicts ==
    { EmptyDict,
      [keys |-> {"status"}, message |-> ""],
      [keys |-> {"message"}, message |-> "User already exists"] }

\* Python truthiness of a dict: an empty dict is falsy.
Truthy(d) == d.keys # {}

\* dict.get(key, default)
DictGet(d, default) == IF "message" \in d.keys THEN d.message ELSE default

NoResp == [status |-> 0, msg |-> "", id |-> 0, email |-> ""]
NoReq == [kind |-> "none", email |-> "", pwlen |-> 0, uid |-> 0, text |-> ""]
NoOps == [factory |-> 0, construct |-> 0, signup |-> 0, insert |-> 0, query |-> 0, outbound |-> 0]
NoSignUp == [hasError |-> FALSE, err |-> EmptyDict, hasUser |-> FALSE, id |-> 0, email |-> ""]
NoRow == [id |-> 0, email |-> ""]
NoQuery == [found |-> FALSE, fail |-> FALSE, row |-> NoRow]
NoDown == [reach |-> FALSE, status |-> 0, body |-> ""]

VARIABLES
    envUrl,     \* SUPABASE_URL is set and non-empty
    envKey,     \* SUPABASE_ANON_KEY is set and non-empty
    libOK,      \* `from supabase import create_client` succeeds
    cache,      \* lru_cache of get_supabase_client: 0 = empty, else the handle
    created,    \* number of create_client calls so far; handles are 1..created
    loop,       \* 0 = event loop free, else the request whose sync call holds it
    req,        \* request inputs
    pc,         \* position of each request's handling
    handle,     \* the handle injected into the request (0 = none)
    local,      \* handle a factory invocation has built and not yet returned
    resp,       \* response sent for the request
    ops,        \* what was done on behalf of the request
    su,         \* sign_up result the request received
    ins,        \* row the request passed to insert
    qry,          \* what the users table held and answered at query time
    down,       \* the downstream's answer to the request's outbound GET
    auth,       \* backend: identities created by successful sign-ups
    users       \* backend: rows of the "users" table

vars == <<envUrl, envKey, libOK, cache, created, loop, req, pc, handle, local,
          resp, ops, su, ins, qry, down, auth, users>>

env == <<envUrl, envKey, libOK>>
backend == <<auth, users>>
hist == <<su, ins, qry, down>>

Init ==
    /\ envUrl \in BOOLEAN
    /\ envKey \in BOOLEAN
    /\ libOK \in BOOLEAN
    /\ cache = 0
    /\ created = 0
    /\ loop = 0
    /\ req = [r \in Req |-> NoReq]
    /\ pc = [r \in Req |-> "idle"]
    /\ handle = [r \in Req |-> 0]
    /\ local = [r \in Req |-> 0]
    /\ resp = [r \in Req |-> NoResp]
    /\ ops = [r \in Req |-> NoOps]
    /\ su = [r \in Req |-> NoSignUp]
    /\ ins = [r \in Req |-> NoRow]
    /\ qry = [r \in Req |-> NoQuery]
    /\ down = [r \in Req |-> NoDown]
    /\ auth = {}
    /\ users = {}

\* ------------------------------------------------------------- helpers
Respond(r, st, m, i, e) ==
    resp' = [resp EXCEPT ![r] = [status |-> st, msg |-> m, id |-> i, email |-> e]]

Bump(r, f) == ops' = [ops EXCEPT ![r][f] = @ + 1]

Goto(r, p) == pc' = [pc EXCEPT ![r] = p]

NeedsBackendEveryRoute(kind) == kind \in {"create", "get", "root"}

\* Routes declared with Depends(get_supabase).
NeedsBackend(kind) == kind \in {"create", "get"}

\* A synchronous (not awaited) call made inside an `async def` handler runs on
\* the event-loop thread: the loop belongs to the caller until it returns.
SyncCallHolds(r) == r

\* A route's handler runs once the route's dependencies are solved.
Ready(r) == IF NeedsBackend(req[r].kind) THEN pc[r] = "dep_done" ELSE pc[r] = "recv"

\* ------------------------------------------------------------- arrival
Arrive(r) ==
    /\ pc[r] = "idle"
    /\ \A o \in Req : o < r => pc[o] # "idle"
    /\ \E k \in Kinds, e \in Emails, p \in PwLens, u \in Ids, t \in Texts :
          req' = [req EXCEPT ![r] =
                    [kind |-> k,
                     email |-> IF k = "create" THEN e ELSE "",
                     pwlen |-> IF k = "create" THEN p ELSE 0,
                     uid |-> IF k = "get" THEN u ELSE 0,
                     text |-> IF k = "text" THEN t ELSE ""]]
    /\ Goto(r, "recv")
    /\ UNCHANGED <<env, cache, created, loop, handle, local, resp, ops, hist, backend>>

\* ------------------------------------------------------------- GET /
read_root(r) ==
    /\ Ready(r) /\ req[r].kind = "root"
    /\ loop = 0
    /\ Respond(r, 200, RootMessage, 0, "")
    /\ Goto(r, "done")
    /\ UNCHANGED <<env, cache, created, loop, req, handle, local, ops, hist, backend>>

\* ------------------------------------------------------ POST /process-text
\* The try block prints and returns; any exception becomes a 500 with a
\* diagnostic detail.
process_text(r) ==
    /\ Ready(r) /\ req[r].kind = "text"
    /\ loop = 0
    /\ \E printed \in BOOLEAN :
          IF printed
          THEN Respond(r, 200, req[r].text, 0, "")
          ELSE Respond(r, 500, TextErrorMsg, 0, "")
    /\ Goto(r, "done")
    /\ UNCHANGED <<env, cache, created, loop, req, handle, local, ops, hist, backend>>

\* ------------------------------------------------------- GET /service/ping
IsSuccessUnlessError(s) == s >= 200 /\ s < 400

\* httpx Response.is_success, which raise_for_status tests.
IsSuccess(s) == s >= 200 /\ s < 300

\* response.json(): the body parses as JSON or the call raises.
IsJson(b) == b # NonJsonBody

\* `response = await client.get(...)`: the request is sent and the coroutine
\* suspends; the event loop stays free.
proxy_ping_send(r) ==
    /\ Ready(r) /\ req[r].kind = "ping"
    /\ loop = 0
    /\ Bump(r, "outbound")
    /\ Goto(r, "wait_ping")
    /\ UNCHANGED <<env, cache, created, loop, req, handle, local, resp, hist, backend>>

\* What proxy_ping answers once the awaited GET has completed with `d`.
ProxyResponse(d) ==
    IF ~d.reach THEN [status |-> 500, msg |-> "ConnectError", id |-> 0, email |-> ""]
    ELSE IF ~IsSuccess(d.status)
         THEN [status |-> 500, msg |-> "HTTPStatusError", id |-> 0, email |-> ""]
    ELSE IF ~IsJson(d.body)
         THEN [status |-> 500, msg |-> "JSONDecodeError", id |-> 0, email |-> ""]
    ELSE [status |-> 200, msg |-> d.body, id |-> 0, email |-> ""]

proxy_ping_return(r) ==
    /\ pc[r] = "wait_ping"
    /\ loop = 0
    /\ \E d \in DownstreamOutcomes :
          /\ down' = [down EXCEPT ![r] = d]
          /\ resp' = [resp EXCEPT ![r] = ProxyResponse(d)]
    /\ Goto(r, "done")
    /\ UNCHANGED <<env, cache, created, loop, req, handle, local, ops, su, ins, qry, backend>>

\* ------------------------------------------- get_supabase / lru_cache factory
\* The framework resolves Depends(get_supabase) first; get_supabase is a plain
\* `def`, so it is handed to a worker thread and the loop is released.
solve_dependencies(r) ==
    /\ pc[r] = "recv" /\ NeedsBackend(req[r].kind)
    /\ loop = 0
    /\ Goto(r, "dep_lookup")
    /\ UNCHANGED <<env, cache, created, loop, req, handle, local, resp, ops, hist, backend>>

\* lru_cache wrapper, first half: look the (empty) key up; a hit returns the
\* cached object, a miss goes on to call the wrapped function.
lru_lookup(r) ==
    /\ pc[r] = "dep_lookup"
    /\ Bump(r, "factory")
    /\ IF cache # 0
       THEN /\ handle' = [handle EXCEPT ![r] = cache]
            /\ Goto(r, "dep_done")
       ELSE /\ Goto(r, "dep_body")
            /\ UNCHANGED handle
    /\ UNCHANGED <<env, cache, created, loop, req, local, resp, hist, backend>>

ConfigOKUrlOnly == envUrl

\* `if not url or not key`
ConfigOK == envUrl /\ envKey

\* Body of get_supabase_client.  A raised RuntimeError is not cached and
\* leaves the request with an unhandled exception (500).
get_supabase_client(r) ==
    /\ pc[r] = "dep_body"
    /\ IF ~ConfigOK
       THEN /\ Respond(r, 500, ConfigErrorMsg, 0, "")
            /\ Goto(r, "done")
            /\ UNCHANGED <<created, local, ops>>
       ELSE IF ~libOK
       THEN /\ Respond(r, 500, DependencyErrorMsg, 0, "")
            /\ Goto(r, "done")
            /\ UNCHANGED <<created, local, ops>>
       ELSE /\ created' = created + 1
            /\ local' = [local EXCEPT ![r] = created + 1]
            /\ Bump(r, "construct")
            /\ Goto(r, "dep_store")
            /\ UNCHANGED resp
    /\ UNCHANGED <<env, cache, loop, req, handle, hist, backend>>

\* lru_cache wrapper, second half: after the call, the result is stored unless
\* the key was added meanwhile; either way the caller gets its own result.
LruStore(c, result) == IF c = 0 THEN result ELSE c

LruReturn(c, result) == result

lru_store(r) ==
    /\ pc[r] = "dep_store"
    /\ cache' = LruStore(cache, local[r])
    /\ handle' = [handle EXCEPT ![r] = LruReturn(cache, local[r])]
    /\ local' = [local EXCEPT ![r] = 0]
    /\ Goto(r, "dep_done")
    /\ UNCHANGED <<env, created, loop, req, resp, ops, hist, backend>>

\* ------------------------------------------------------------ POST /users/
\* UserCreate.password: Field(..., min_length=8)
PasswordValid(n) == n >= MinPasswordLen

\* After the dependency is solved the body is validated; a valid request
\* enters create_user, which calls sign_up synchronously: the coroutine does
\* not suspend, so the calling request keeps the event loop until it returns.
create_user_start(r) ==
    /\ Ready(r) /\ req[r].kind = "create"
    /\ loop = 0
    /\ IF ~PasswordValid(req[r].pwlen)
       THEN /\ Respond(r, 422, ValidationErrorMsg, 0, "")
            /\ Goto(r, "done")
            /\ UNCHANGED <<loop, ops>>
       ELSE /\ Bump(r, "signup")
            /\ loop' = SyncCallHolds(r)
            /\ Goto(r, "wait_signup")
            /\ UNCHANGED resp
    /\ UNCHANGED <<env, cache, created, req, handle, local, hist, backend>>

\* The auth surface stores addresses in lower case.
Canonical(e) == IF e = "A@x" THEN "a@x" ELSE e

\* Answers the auth surface can give to sign_up(email, password): a new
\* identity with the next free id, or an error object.
SignUpResults(e) ==
    { [hasError |-> FALSE, err |-> EmptyDict, hasUser |-> TRUE, id |-> i,
       email |-> Canonical(e)] : i \in {Cardinality(auth) + 1} \cap Ids }
    \cup
    { [hasError |-> TRUE, err |-> d, hasUser |-> FALSE, id |-> 0, email |-> ""] :
        d \in ErrDicts }

InsertRowFromRequest(r, res) == [id |-> res.id, email |-> req[r].email]

\* The row create_user passes to insert.
InsertRow(r, res) == [id |-> res.id, email |-> res.email]

\* `error = result.get("error"); if error:`
SignUpFailed(res) == res.hasError /\ Truthy(res.err)

create_user_signed_up(r) ==
    /\ pc[r] = "wait_signup"
    /\ \E res \in SignUpResults(req[r].email) :
          /\ su' = [su EXCEPT ![r] = res]
          /\ auth' = IF res.hasUser THEN auth \cup {[id |-> res.id, email |-> res.email]}
                     ELSE auth
          /\ IF SignUpFailed(res)
             THEN /\ Respond(r, 400, DictGet(res.err, SignUpFallbackMsg), 0, "")
                  /\ loop' = 0
                  /\ Goto(r, "done")
                  /\ UNCHANGED <<ops, ins>>
             ELSE IF ~res.hasUser
             THEN \* user_data is None: user_data["id"] raises TypeError
                  /\ Respond(r, 500, "TypeError", 0, "")
                  /\ loop' = 0
                  /\ Goto(r, "done")
                  /\ UNCHANGED <<ops, ins>>
             ELSE /\ Bump(r, "insert")
                  /\ ins' = [ins EXCEPT ![r] = InsertRow(r, res)]
                  /\ Goto(r, "wait_insert")
                  /\ UNCHANGED <<resp, loop>>
    /\ UNCHANGED <<env, cache, created, req, handle, local, qry, down, users>>

\* The insert's result is discarded; only an exception changes the response.
create_user_inserted(r) ==
    /\ pc[r] = "wait_insert"
    /\ \E out \in {"ok", "error", "raise"} :
          /\ out = "ok" => \A row \in users : row.id # ins[r].id
          /\ users' = IF out = "ok" THEN users \cup {ins[r]} ELSE users
          /\ IF out = "raise"
             THEN Respond(r, 500, "APIError", 0, "")
             ELSE Respond(r, 201, "", su[r].id, su[r].email)
    /\ loop' = 0
    /\ Goto(r, "done")
    /\ UNCHANGED <<env, cache, created, req, handle, local, ops, hist, auth>>

\* ------------------------------------------------------ GET /users/{user_id}
get_user_start(r) ==
    /\ Ready(r) /\ req[r].kind = "get"
    /\ loop = 0
    /\ Bump(r, "query")
    /\ loop' = SyncCallHolds(r)
    /\ Goto(r, "wait_query")
    /\ UNCHANGED <<env, cache, created, req, handle, local, resp, hist, backend>>

MaybeSingle(rows) ==
    IF Cardinality(rows) <= 1
    THEN [hasError |-> FALSE, message |-> "",
          data |-> IF rows = {} THEN NoRow ELSE CHOOSE x \in rows : TRUE]
    ELSE [hasError |-> TRUE, message |-> NoRowsMsg, data |-> NoRow]

\* .single(): exactly one row is expected; anything else is an error.
Single(rows) ==
    IF Cardinality(rows) = 1
    THEN [hasError |-> FALSE, message |-> "", data |-> CHOOSE x \in rows : TRUE]
    ELSE [hasError |-> TRUE, message |-> NoRowsMsg, data |-> NoRow]

\* `if result.error: raise 404 ... return result.data`
GetUserResponse(result) ==
    IF result.hasError
    THEN [status |-> 404, msg |-> result.message, id |-> 0, email |-> ""]
    ELSE [status |-> 200, msg |-> "", id |-> result.data.id, email |-> result.data.email]

get_user_queried(r) ==
    /\ pc[r] = "wait_query"
    /\ \E fail \in BOOLEAN :
          LET rows == {row \in users : row.id = req[r].uid}
              result == IF fail
                        THEN [hasError |-> TRUE, message |-> BackendDownMsg, data |-> NoRow]
                        ELSE Single(rows)
          IN  /\ qry' = [qry EXCEPT ![r] =
                         [found |-> rows # {}, fail |-> fail,
                          row |-> IF rows # {} THEN CHOOSE x \in rows : TRUE ELSE NoRow]]
              /\ resp' = [resp EXCEPT ![r] = GetUserResponse(result)]
    /\ loop' = 0
    /\ Goto(r, "done")
    /\ UNCHANGED <<env, cache, created, req, handle, local, ops, su, ins, down, backend>>

Next ==
    \E r \in Req :
        \/ Arrive(r)
        \/ read_root(r)
        \/ process_text(r)
        \/ proxy_ping_send(r)
        \/ proxy_ping_return(r)
        \/ solve_dependencies(r)
        \/ lru_lookup(r)
        \/ get_supabase_client(r)
        \/ lru_store(r)
        \/ create_user_start(r)
        \/ create_user_signed_up(r)
        \/ create_user_inserted(r)
        \/ get_user_start(r)
        \/ get_user_queried(r)

Spec == Init /\ [][Next]_vars
\* ===================================================================== claims
UserKinds == {"create", "get"}

Done(r) == pc[r] = "done"

AwaitingIO(r) == pc[r] \in {"wait_signup", "wait_insert", "wait_query", "wait_ping"}

\* C1: whatever the configuration, the library and the earlier requests, a
\* GET / that is answered gets 200 with exactly {"message": "Gateway is
\* working"}, and its handling never invokes the backend client factory.
RootAlwaysWorks ==
    \A r \in Req :
        req[r].kind = "root" =>
            /\ ops[r].factory = 0
            /\ ops[r].construct = 0
            /\ handle[r] = 0
            /\ pc[r] \in {"recv", "done"}
            /\ Done(r) => resp[r] = [status |-> 200, msg |-> "Gateway is working",
                                     id |-> 0, email |-> ""]

\* C1 witness: GET / answered with no configuration present, after a user
\* request of the same process failed on the missing configuration.
RootServedWithoutConfig ==
    \E r, o \in Req :
        /\ ~(envUrl /\ envKey)
        /\ req[o].kind \in UserKinds /\ Done(o) /\ resp[o].status = 500
        /\ o < r /\ req[r].kind = "root" /\ Done(r)

\* C2: a POST /users/ whose password is shorter than 8 characters gets a 4xx
\* response, and no handle is constructed, no sign_up and no insert is made
\* for it.
ShortPasswordRejectedFirst ==
    \A r \in Req :
        (req[r].kind = "create" /\ req[r].pwlen < 8) =>
            /\ ops[r].construct = 0
            /\ ops[r].signup = 0
            /\ ops[r].insert = 0
            /\ Done(r) => (resp[r].status >= 400 /\ resp[r].status < 500)

\* C3: when sign_up reports an error, POST /users/ answers 400 with the
\* backend's message (the fallback when the error has none) and inserts no
\* row.
SignUpErrorIs400 ==
    \A r \in Req :
        (req[r].kind = "create" /\ Done(r) /\ su[r].hasError) =>
            /\ resp[r].status = 400
            /\ resp[r].msg = (IF "message" \in su[r].err.keys THEN su[r].err.message
                              ELSE "An unknown error occurred during sign up")
            /\ ops[r].insert = 0

\* C4: a GET /users/{id} whose query ran answers 404 when the table held no
\* row for the id or the backend reported an error, and otherwise 200 with
\* the matching row; no GET /users/{id} ever answers 200 without a row.
GetUser404OrRow ==
    \A r \in Req :
        (req[r].kind = "get" /\ Done(r)) =>
            /\ resp[r].status = 200 => (ops[r].query = 1 /\ qry[r].found)
            /\ ops[r].query = 1 =>
                  IF ~qry[r].found \/ qry[r].fail
                  THEN resp[r].status = 404
                  ELSE /\ resp[r].status = 200
                       /\ resp[r].id = qry[r].row.id /\ resp[r].id = req[r].uid
                       /\ resp[r].email = qry[r].row.email

\* C4 witness: the query ran without a backend failure, found no row, and
\* the request was answered.
GetUserNoRowAnswered ==
    \E r \in Req :
        /\ req[r].kind = "get" /\ Done(r) /\ ops[r].query = 1
        /\ ~qry[r].found /\ ~qry[r].fail

\* C5: at most one handle is ever created in the process, and every
\* invocation of the factory that returned did so with the cached handle.
HandleCreatedOnce ==
    /\ created <= 1
    /\ \A r \in Req : handle[r] # 0 => handle[r] = cache

\* C6: no two requests are handed handles of different identity.
SameHandleForAll ==
    \A r, o \in Req : (handle[r] # 0 /\ handle[o] # 0) => handle[r] = handle[o]

\* C7: a GET /service/ping makes exactly one outbound GET, and its answer is
\* that one downstream answer's: the JSON body with 200 on a success status,
\* a server error without the downstream body when the downstream is
\* unreachable or answers with a non-success status.
ProxyOneShot ==
    \A r \in Req :
        req[r].kind = "ping" =>
            /\ ops[r].outbound <= 1
            /\ pc[r] \in {"wait_ping", "done"} => ops[r].outbound = 1
            /\ Done(r) =>
                  IF ~down[r].reach \/ down[r].status < 200 \/ down[r].status >= 300
                  THEN resp[r].status = 500 /\ resp[r].msg \notin Bodies
                  ELSE down[r].body # "<html>" =>
                          resp[r] = [status |-> 200, msg |-> down[r].body,
                                     id |-> 0, email |-> ""]

\* C7 witness: the downstream answered with a redirect status and a JSON
\* body, and the caller has its answer.
ProxyRedirectAnswered ==
    \E r \in Req :
        /\ req[r].kind = "ping" /\ Done(r)
        /\ down[r].reach /\ down[r].status = 301 /\ down[r].body = "{status: ok}"

\* C8: while SUPABASE_URL or SUPABASE_ANON_KEY is absent, no handle is
\* created, cached or injected, no backend operation is made, every answered
\* user-service request failed with the configuration error, no other
\* endpoint's answer carries that error, and the event loop stays free, so
\* a waiting GET / can be handled.
NoConfigNoUserService ==
    ~(envUrl /\ envKey) =>
        /\ cache = 0 /\ created = 0 /\ loop = 0
        /\ auth = {} /\ users = {}
        /\ \A r \in Req :
              /\ handle[r] = 0 /\ local[r] = 0
              /\ ops[r].construct = 0 /\ ops[r].signup = 0
              /\ ops[r].insert = 0 /\ ops[r].query = 0
              /\ (req[r].kind \in UserKinds /\ Done(r)) =>
                    (resp[r].status = 500 /\ resp[r].msg = ConfigErrorMsg)
              /\ req[r].kind \notin UserKinds => resp[r].msg # ConfigErrorMsg
              /\ (req[r].kind = "root" /\ pc[r] = "recv") => ENABLED read_root(r)

\* C8 witness: with the key absent, a user-service request failed and a
\* later proxy request was answered from the downstream.
ProxyServedAfterConfigFailure ==
    \E r, o \in Req :
        /\ envUrl /\ ~envKey /\ libOK
        /\ req[o].kind \in UserKinds /\ Done(o)
        /\ o < r /\ req[r].kind = "ping" /\ Done(r) /\ resp[r].status = 200

\* C9: while a request waits on network I/O, a GET / that has arrived can be
\* handled.
IOWaitBlocksNobody ==
    \A r, o \in Req :
        (r # o /\ AwaitingIO(r) /\ req[o].kind = "root" /\ pc[o] = "recv") =>
            ENABLED read_root(o)

\* C10: a create-user request inserts at most once, only after its sign_up
\* returned a user and no error, and exactly the id and email of that
\* result; a 201 carries the same two values; every row of "users" is an
\* identity a successful sign-up created.
InsertFollowsSignUp ==
    /\ \A r \in Req :
          /\ ops[r].insert <= 1
          /\ ops[r].insert = 1 =>
                /\ req[r].kind = "create" /\ ops[r].signup = 1
                /\ su[r].hasUser /\ ~su[r].hasError
                /\ ins[r] = [id |-> su[r].id, email |-> su[r].email]
          /\ (req[r].kind = "create" /\ resp[r].status = 201) =>
                /\ ops[r].insert = 1
                /\ resp[r].id = su[r].id /\ resp[r].email = su[r].email
    /\ \A row \in users : row \in auth

\* C10 witness: a request whose address the backend changed was answered 201
\* and its row is in the table.
CreatedWithBackendEmail ==
    \E r \in Req :
        /\ req[r].kind = "create" /\ Done(r) /\ resp[r].status = 201
        /\ su[r].email # req[r].email
        /\ ins[r] \in users

=============================================================================
